---- MODULE Spec2Model ----
(***************************************************************************)
(* The room/session state machine of src/server.js: the room registry      *)
(* `rooms`, one CardGame object, the grace-period timers armed by          *)
(* handleDisconnect, and the messages each handler sends.                  *)
(*                                                                         *)
(* One room code is observed.  Every identity is driven by its own client  *)
(* over its own connection, so the `ws` of a PlayerState is represented by *)
(* the identity itself and is OPEN for as long as the identity is a key of *)
(* players (ws.on('close') removes it).  The fields ws and disconnectedAt  *)
(* copied into disconnectedPlayers are never read back and are left out.   *)
(***************************************************************************)
EXTENDS Integers, Sequences, FiniteSets, TLC

\* ------------------------------------------------------------------ bounds
\* identities whose clients send messages
NumActives == 3
\* display names these clients choose from
NumNames == 2
\* grace-period timers pending at once
MaxTimers == 2
\* outcomes of the shuffle of distributeCards
NumShuffles == 2
\* client messages of a run that starts with the empty registry
MaxSteps == 6
\* client messages of a run that starts with the filled room
MaxFilledSteps == 6

\* ------------------------------------------------------- program constants
MAX_PLAYERS == 10
CARDS_PER_PLAYER == 2
cards == <<1, 2, 3, 4, 5, 6, 7, 8, 9, 10,
           100, 200, 300, 400, 500, 600, 700, 800, 900, 1000>>

ROOM == "room"
\* JavaScript null, as the value of hostId (identities are positive)
NULL == 0
\* JavaScript null, as the value of a cards field (no card is 0)
NULLCARDS == <<0>>

\* Clients that send messages, and the clients that have joined the filled
\* room of InitFilled and stay in it without sending anything.
Actives == 1..NumActives
NumFillers == MAX_PLAYERS - 2
Names == 1..NumNames
FillerName(f) == NumNames + f

\* ------------------------------------------------------------------- state
VARIABLES
    rooms,      \* the registry: room code -> CardGame object
    timers,     \* pending grace-period timeouts, in the order they were armed
    sent,       \* the messages sent by the last handler, in order
    joined,     \* history: identities of the room in order of their first join
    forfeited,  \* history: keys of disconnectedPlayers that were in diedPlayers
                \* when they were moved there
    lastDeal,   \* history: the hands dealt by the start of the running round
    budget      \* the number of client messages still to come

vars == <<rooms, timers, sent, joined, forfeited, lastDeal, budget>>

\* ------------------------------------------------------------ Map helpers
Keys(m) == {m[i].id : i \in DOMAIN m}
IndexOf(m, id) == CHOOSE i \in DOMAIN m : m[i].id = id
MapGet(m, id) == m[IndexOf(m, id)]
MapDelete(m, id) == SelectSeq(m, LAMBDA e : e.id # id)
MapSet(m, e) ==
    IF e.id \in Keys(m) THEN [m EXCEPT ![IndexOf(m, e.id)] = e] ELSE Append(m, e)
Remove(s, id) == SelectSeq(s, LAMBDA x : x # id)

\* ------------------------------------------------------- state shorthands
Exists == ROOM \in DOMAIN rooms
Present == IF Exists THEN Keys(rooms[ROOM].players) ELSE {}
Disconnected == IF Exists THEN Keys(rooms[ROOM].disconnectedPlayers) ELSE {}
Recipients(m) == {m.players[i].id : i \in DOMAIN m.players}
\* the first member of players in the order of first joins
EarliestJoiner(g, order) ==
    order[CHOOSE i \in DOMAIN order :
            /\ order[i] \in Keys(g.players)
            /\ \A j \in 1..(i - 1) : order[j] \notin Keys(g.players)]

\* info.cards?.length > 0
HasCards(c) == c # NULLCARDS /\ Len(c) > 0

\* ---------------------------------------------------------------- CardGame
NewCardGame(roomCode) ==
    [roomCode |-> roomCode,
     players |-> <<>>,
     gameStarted |-> FALSE,
     hostId |-> NULL,
     firstGamePlayers |-> {},
     diedPlayers |-> {},
     disconnectedPlayers |-> <<>>]

\* The gameState object of lines 169-183, and the send loop of lines 185-194
\* as one entry that lists its recipients: every key of players (their
\* connections are OPEN).  GameStateFor gives the copy one recipient gets.
gameState(g) ==
    [type |-> "gameState",
     roomCode |-> g.roomCode,
     totalPlayers |-> Len(g.players),
     gameStarted |-> g.gameStarted,
     players |-> [i \in DOMAIN g.players |->
                    [id |-> g.players[i].id,
                     name |-> g.players[i].name,
                     hasCards |-> HasCards(g.players[i].cards),
                     isHost |-> g.players[i].id = g.hostId,
                     isFirstGame |-> g.players[i].id \notin g.firstGamePlayers,
                     isDied |-> g.players[i].id \in g.diedPlayers,
                     cards |-> g.players[i].cards]],
     hostId |-> g.hostId,
     firstGamePlayers |-> g.firstGamePlayers,
     diedPlayers |-> g.diedPlayers]

broadcastGameState(g) == IF Len(g.players) = 0 THEN <<>> ELSE <<gameState(g)>>

GameStateFor(m, playerId) ==
    [type |-> "gameState",
     to |-> playerId,
     roomCode |-> m.roomCode,
     totalPlayers |-> m.totalPlayers,
     gameStarted |-> m.gameStarted,
     players |-> m.players,
     isHost |-> playerId = m.hostId,
     isFirstGame |-> playerId \notin m.firstGamePlayers,
     isDied |-> playerId \in m.diedPlayers]

ErrorMsg(to, message) == [type |-> "error", to |-> to, message |-> message]
CardsMsg(to, c) == [type |-> "cards", to |-> to, cards |-> c]

\* leaveRoom promoting the last remaining player instead of the first
leaveRoom_PromotesLast(g, playerId) ==
    IF playerId \in Keys(g.players)
    THEN LET playerInfo == MapGet(g.players, playerId)
             keep == g.gameStarted \/ HasCards(playerInfo.cards)
             g1 == [g EXCEPT
                      !.disconnectedPlayers =
                          IF keep THEN MapSet(@, playerInfo) ELSE @,
                      !.players = MapDelete(@, playerId)]
         IN  [g |-> [g1 EXCEPT !.hostId =
                        IF playerId = g.hostId /\ Len(g1.players) > 0
                        THEN g1.players[Len(g1.players)].id ELSE @],
              ret |-> TRUE]
    ELSE [g |-> g, ret |-> FALSE]

leaveRoom(g, playerId) ==
    IF playerId \in Keys(g.players)
    THEN LET playerInfo == MapGet(g.players, playerId)
             keep == g.gameStarted \/ HasCards(playerInfo.cards)
             g1 == [g EXCEPT
                      !.disconnectedPlayers =
                          IF keep THEN MapSet(@, playerInfo) ELSE @,
                      !.players = MapDelete(@, playerId)]
         IN  [g |-> [g1 EXCEPT !.hostId =
                        IF playerId = g.hostId /\ Len(g1.players) > 0
                        THEN g1.players[1].id ELSE @],
              ret |-> TRUE]
    ELSE [g |-> g, ret |-> FALSE]

\* The setTimeout of lines 60-65 is armed by the caller of this operator.
handleDisconnect(g, playerId) ==
    IF playerId \in Keys(g.players)
    THEN LET g1 == [g EXCEPT
                      !.disconnectedPlayers = MapSet(@, MapGet(g.players, playerId)),
                      !.players = MapDelete(@, playerId)]
         IN  [g |-> g1, out |-> broadcastGameState(g1), armed |-> TRUE]
    ELSE [g |-> g, out |-> <<>>, armed |-> FALSE]

\* handleReconnect without the delete of line 81
handleReconnect_KeepsEntry(g, playerId, playerName) ==
    IF playerId \in Keys(g.disconnectedPlayers)
    THEN LET disconnectedInfo == MapGet(g.disconnectedPlayers, playerId)
             c == IF playerId \in g.diedPlayers THEN NULLCARDS ELSE disconnectedInfo.cards
         IN  [g |-> [g EXCEPT
                       !.players = MapSet(@, [id |-> playerId, name |-> playerName, cards |-> c])],
              out |-> IF g.gameStarted /\ c # NULLCARDS
                      THEN <<CardsMsg(playerId, c)>> ELSE <<>>,
              ret |-> TRUE]
    ELSE [g |-> g, out |-> <<>>, ret |-> FALSE]

\* handleReconnect refusing while a round is running
handleReconnect_ChecksStarted(g, playerId, playerName) ==
    IF playerId \in Keys(g.disconnectedPlayers) /\ ~g.gameStarted
    THEN LET disconnectedInfo == MapGet(g.disconnectedPlayers, playerId)
             c == IF playerId \in g.diedPlayers THEN NULLCARDS ELSE disconnectedInfo.cards
         IN  [g |-> [g EXCEPT
                       !.players = MapSet(@, [id |-> playerId, name |-> playerName, cards |-> c]),
                       !.disconnectedPlayers = MapDelete(@, playerId)],
              out |-> IF g.gameStarted /\ c # NULLCARDS
                      THEN <<CardsMsg(playerId, c)>> ELSE <<>>,
              ret |-> TRUE]
    ELSE [g |-> g, out |-> <<>>, ret |-> FALSE]

handleReconnect(g, playerId, playerName) ==
    IF playerId \in Keys(g.disconnectedPlayers)
    THEN LET disconnectedInfo == MapGet(g.disconnectedPlayers, playerId)
             c == IF playerId \in g.diedPlayers THEN NULLCARDS ELSE disconnectedInfo.cards
         IN  [g |-> [g EXCEPT
                       !.players = MapSet(@, [id |-> playerId, name |-> playerName, cards |-> c]),
                       !.disconnectedPlayers = MapDelete(@, playerId)],
              out |-> IF g.gameStarted /\ c # NULLCARDS
                      THEN <<CardsMsg(playerId, c)>> ELSE <<>>,
              ret |-> TRUE]
    ELSE [g |-> g, out |-> <<>>, ret |-> FALSE]

\* playerDie marking the identity before it looks it up
playerDie_MarksFirst(g, playerId) ==
    IF playerId \notin Keys(g.players)
    THEN [g |-> [g EXCEPT !.diedPlayers = @ \cup {playerId}],
          out |-> <<>>, error |-> "PlayerNotFound"]
    ELSE LET g1 == [g EXCEPT
                      !.diedPlayers = @ \cup {playerId},
                      !.players[IndexOf(g.players, playerId)].cards = NULLCARDS]
         IN  [g |-> g1, out |-> <<gameState(g1)>>, error |-> ""]

playerDie(g, playerId) ==
    IF playerId \notin Keys(g.players)
    THEN [g |-> g, out |-> <<>>, error |-> "PlayerNotFound"]
    ELSE LET g1 == [g EXCEPT
                      !.diedPlayers = @ \cup {playerId},
                      !.players[IndexOf(g.players, playerId)].cards = NULLCARDS]
         IN  [g |-> g1, out |-> broadcastGameState(g1), error |-> ""]

\* [...this.cards].sort(() => Math.random() - 0.5): one of a few permutations
Shuffles == 0..(NumShuffles - 1)
shuffledCards(k) == [i \in DOMAIN cards |-> cards[((i - 1 + k) % Len(cards)) + 1]]

Min(a, b) == IF a < b THEN a ELSE b
\* Array.prototype.slice(from, to), 0-based and clamped to the array
Slice(s, from, to) ==
    [j \in 1..(Min(to, Len(s)) - Min(from, Len(s))) |-> s[Min(from, Len(s)) + j]]

distributeCards(g, k) ==
    LET dealt == [i \in DOMAIN g.players |->
                    Slice(shuffledCards(k), (i - 1) * CARDS_PER_PLAYER,
                          (i - 1) * CARDS_PER_PLAYER + CARDS_PER_PLAYER)]
        g1 == [g EXCEPT !.players =
                 [i \in DOMAIN g.players |-> [g.players[i] EXCEPT !.cards = dealt[i]]]]
    IN  [g |-> g1,
         out |-> [i \in DOMAIN g.players |-> CardsMsg(g.players[i].id, dealt[i])]
                 \o broadcastGameState(g1)]

\* startGame counting the players before it checks the host
startGame_CountsFirst(g, hostId, k) ==
    IF Len(g.players) < 2
    THEN [g |-> g, out |-> <<>>, error |-> "InsufficientPlayers"]
    ELSE IF hostId # g.hostId
    THEN [g |-> g, out |-> <<>>, error |-> "NotHostStart"]
    ELSE IF g.gameStarted
    THEN [g |-> g, out |-> <<>>, error |-> "AlreadyStarted"]
    ELSE LET r == distributeCards([g EXCEPT !.gameStarted = TRUE], k)
         IN  [g |-> r.g, out |-> r.out, error |-> ""]

\* startGame dealing without setting gameStarted
startGame_StaysLobby(g, hostId, k) ==
    IF hostId # g.hostId
    THEN [g |-> g, out |-> <<>>, error |-> "NotHostStart"]
    ELSE IF Len(g.players) < 2
    THEN [g |-> g, out |-> <<>>, error |-> "InsufficientPlayers"]
    ELSE IF g.gameStarted
    THEN [g |-> g, out |-> <<>>, error |-> "AlreadyStarted"]
    ELSE LET r == distributeCards(g, k)
         IN  [g |-> r.g, out |-> r.out, error |-> ""]

startGame(g, hostId, k) ==
    IF hostId # g.hostId
    THEN [g |-> g, out |-> <<>>, error |-> "NotHostStart"]
    ELSE IF Len(g.players) < 2
    THEN [g |-> g, out |-> <<>>, error |-> "InsufficientPlayers"]
    ELSE IF g.gameStarted
    THEN [g |-> g, out |-> <<>>, error |-> "AlreadyStarted"]
    ELSE LET r == distributeCards([g EXCEPT !.gameStarted = TRUE], k)
         IN  [g |-> r.g, out |-> r.out, error |-> ""]

\* endGame without the diedPlayers.clear() of line 164
endGame_KeepsDied(g, hostId) ==
    IF hostId # g.hostId
    THEN [g |-> g, out |-> <<>>, error |-> "NotHostEnd"]
    ELSE LET g1 == [g EXCEPT
                      !.gameStarted = FALSE,
                      !.firstGamePlayers = @ \cup Keys(g.players),
                      !.players = [i \in DOMAIN g.players |->
                                     IF g.players[i].id \in g.diedPlayers
                                     THEN [g.players[i] EXCEPT !.cards = NULLCARDS]
                                     ELSE g.players[i]]]
         IN  [g |-> g1, out |-> broadcastGameState(g1), error |-> ""]

\* endGame clearing diedPlayers before it broadcasts
endGame_ClearsFirst(g, hostId) ==
    IF hostId # g.hostId
    THEN [g |-> g, out |-> <<>>, error |-> "NotHostEnd"]
    ELSE LET g1 == [g EXCEPT
                      !.gameStarted = FALSE,
                      !.firstGamePlayers = @ \cup Keys(g.players),
                      !.players = [i \in DOMAIN g.players |->
                                     IF g.players[i].id \in g.diedPlayers
                                     THEN [g.players[i] EXCEPT !.cards = NULLCARDS]
                                     ELSE g.players[i]],
                      !.diedPlayers = {}]
         IN  [g |-> g1, out |-> broadcastGameState(g1), error |-> ""]

endGame(g, hostId) ==
    IF hostId # g.hostId
    THEN [g |-> g, out |-> <<>>, error |-> "NotHostEnd"]
    ELSE LET g1 == [g EXCEPT
                      !.gameStarted = FALSE,
                      !.firstGamePlayers = @ \cup Keys(g.players),
                      !.players = [i \in DOMAIN g.players |->
                                     IF g.players[i].id \in g.diedPlayers
                                     THEN [g.players[i] EXCEPT !.cards = NULLCARDS]
                                     ELSE g.players[i]]]
         IN  [g |-> [g1 EXCEPT !.diedPlayers = {}],
              out |-> broadcastGameState(g1),
              error |-> ""]

\* ------------------------------------------------------------------- Init
InitEmpty ==
    /\ rooms = <<>>
    /\ timers = <<>>
    /\ sent = <<>>
    /\ joined = <<>>
    /\ forfeited = {}
    /\ lastDeal = <<>>
    /\ budget = MaxSteps

\* The room after createRoom by identity 1 and a joinRoom of every filler.
FilledPlayers ==
    <<[id |-> 1, name |-> 1, cards |-> <<>>]>> \o
    [i \in 1..NumFillers |->
       [id |-> NumActives + i, name |-> FillerName(NumActives + i), cards |-> <<>>]]

InitFilled ==
    /\ rooms = (ROOM :> [NewCardGame(ROOM) EXCEPT !.hostId = 1, !.players = FilledPlayers])
    /\ timers = <<>>
    /\ sent = <<>>
    /\ joined = [i \in DOMAIN FilledPlayers |-> FilledPlayers[i].id]
    /\ forfeited = {}
    /\ lastDeal = <<>>
    /\ budget = MaxFilledSteps

Init == InitEmpty \/ InitFilled

\* ---------------------------------------------------------------- handlers
\* createRoom, for the room code that is observed: generateRoomCode gives a
\* code that is not in the registry.  Timeouts still pending were armed on an
\* earlier CardGame object, which left the registry with its
\* disconnectedPlayers empty: their callbacks can do nothing any more.
CreateRoom(p, n) ==
    /\ ROOM \notin DOMAIN rooms
    /\ LET g == [NewCardGame(ROOM) EXCEPT
                   !.hostId = p,
                   !.players = <<[id |-> p, name |-> n, cards |-> <<>>]>>]
       IN  /\ rooms' = (ROOM :> g)
           /\ sent' = <<[type |-> "roomCreated", to |-> p, roomCode |-> ROOM,
                         playerId |-> p, isHost |-> TRUE]>> \o broadcastGameState(g)
    /\ timers' = <<>>
    /\ joined' = <<p>>

\* A message of a handler that first looks the room up and finds none.
NoRoom(out) ==
    /\ ROOM \notin DOMAIN rooms
    /\ sent' = out
    /\ UNCHANGED <<rooms, timers, joined>>

Reply(p, r) == r.out \o (IF r.error # "" THEN <<ErrorMsg(p, r.error)>> ELSE <<>>)

Die(p) ==
    \/ NoRoom(<<>>)
    \/ /\ ROOM \in DOMAIN rooms
       /\ LET r == playerDie(rooms[ROOM], p)
          IN  /\ rooms' = [rooms EXCEPT ![ROOM] = r.g]
              /\ sent' = Reply(p, r)
       /\ UNCHANGED <<timers, joined>>

JoinRoom(p, n) ==
    \/ NoRoom(<<ErrorMsg(p, "RoomNotFound")>>)
    \/ /\ ROOM \in DOMAIN rooms
       /\ LET g == rooms[ROOM]
              taken == /\ p \notin Keys(g.disconnectedPlayers)
                       /\ \E i \in DOMAIN g.players : g.players[i].name = n
              r == handleReconnect(g, p, n)
              response(h) == [type |-> "joinResponse", to |-> p, roomCode |-> ROOM,
                              playerId |-> p, isHost |-> p = h.hostId,
                              rejoined |-> r.ret]
              fresh == [g EXCEPT !.players =
                          MapSet(@, [id |-> p, name |-> n, cards |-> <<>>])]
          IN  IF taken
              THEN /\ sent' = <<ErrorMsg(p, "NameTaken")>>
                   /\ UNCHANGED <<rooms, timers, joined>>
              ELSE IF r.ret
              THEN /\ rooms' = [rooms EXCEPT ![ROOM] = r.g]
                   /\ sent' = r.out \o <<response(r.g)>> \o broadcastGameState(r.g)
                   /\ timers' = [i \in DOMAIN timers |->
                                   IF timers[i].id = p
                                   THEN [timers[i] EXCEPT !.rejoined = TRUE]
                                   ELSE timers[i]]
                   /\ UNCHANGED joined
              ELSE IF g.gameStarted
              THEN /\ sent' = <<ErrorMsg(p, "GameInProgress")>>
                   /\ UNCHANGED <<rooms, timers, joined>>
              ELSE IF Len(g.players) >= MAX_PLAYERS
              THEN /\ sent' = <<ErrorMsg(p, "RoomFull")>>
                   /\ UNCHANGED <<rooms, timers, joined>>
              ELSE /\ rooms' = [rooms EXCEPT ![ROOM] = fresh]
                   /\ sent' = <<response(fresh)>> \o broadcastGameState(fresh)
                   /\ joined' = IF p \in Keys(g.players) THEN joined ELSE Append(joined, p)
                   /\ UNCHANGED timers

Start(p, k) ==
    \/ NoRoom(<<>>)
    \/ /\ ROOM \in DOMAIN rooms
       /\ LET r == startGame(rooms[ROOM], p, k)
          IN  /\ rooms' = [rooms EXCEPT ![ROOM] = r.g]
              /\ sent' = Reply(p, r)
       /\ UNCHANGED <<timers, joined>>

End(p) ==
    \/ NoRoom(<<>>)
    \/ /\ ROOM \in DOMAIN rooms
       /\ LET r == endGame(rooms[ROOM], p)
          IN  /\ rooms' = [rooms EXCEPT ![ROOM] = r.g]
              /\ sent' = Reply(p, r)
       /\ UNCHANGED <<timers, joined>>

LeftRoom(p) == [type |-> "leftRoom", to |-> p]

LeaveRoom(p) ==
    \/ NoRoom(<<LeftRoom(p)>>)
    \/ /\ ROOM \in DOMAIN rooms
       /\ LET r == leaveRoom(rooms[ROOM], p)
              gone == p \in Keys(rooms[ROOM].players)
                      /\ p \notin Keys(r.g.disconnectedPlayers)
          IN  /\ IF Len(r.g.players) = 0 /\ Len(r.g.disconnectedPlayers) = 0
                 THEN /\ rooms' = <<>>
                      /\ sent' = <<LeftRoom(p)>>
                      /\ joined' = <<>>
                 ELSE /\ rooms' = [rooms EXCEPT ![ROOM] = r.g]
                      /\ sent' = broadcastGameState(r.g) \o <<LeftRoom(p)>>
                      /\ joined' = IF gone THEN Remove(joined, p) ELSE joined
       /\ UNCHANGED timers

\* ws.on('close') of the connection of p; it finds p only while p is a key of
\* players, and handleDisconnect then arms the grace-period timer of p.  The
\* check of line 362 is kept although handleDisconnect has just filled
\* disconnectedPlayers.
Close(p) ==
    /\ ROOM \in DOMAIN rooms
    /\ p \in Keys(rooms[ROOM].players)
    /\ Len(timers) < MaxTimers
    /\ LET r == handleDisconnect(rooms[ROOM], p)
           g1 == [r.g EXCEPT !.hostId =
                    IF p = r.g.hostId /\ Len(r.g.players) > 0
                    THEN r.g.players[1].id ELSE @]
       IN  /\ rooms' = IF Len(g1.players) = 0 /\ Len(g1.disconnectedPlayers) = 0
                       THEN <<>> ELSE [rooms EXCEPT ![ROOM] = g1]
           /\ sent' = r.out
    /\ timers' = Append(timers, [id |-> p, rejoined |-> FALSE])
    /\ UNCHANGED joined

\* The callback of the setTimeout of handleDisconnect; timers of one delay
\* fire in the order they were armed.
TimerFire ==
    /\ timers # <<>>
    /\ timers' = Tail(timers)
    /\ LET playerId == Head(timers).id
       IN  IF ROOM \in DOMAIN rooms /\ playerId \in Keys(rooms[ROOM].disconnectedPlayers)
           THEN LET g1 == [rooms[ROOM] EXCEPT !.disconnectedPlayers = MapDelete(@, playerId)]
                IN  /\ rooms' = [rooms EXCEPT ![ROOM] = g1]
                    /\ sent' = broadcastGameState(g1)
                    /\ joined' = Remove(joined, playerId)
           ELSE /\ sent' = <<>>
                /\ UNCHANGED <<rooms, joined>>

\* The history variables follow the step of the registry.
Started == Exists /\ rooms[ROOM].gameStarted
History ==
    /\ forfeited' = {p \in Disconnected' :
                       IF p \in Disconnected THEN p \in forfeited
                       ELSE Exists /\ p \in rooms[ROOM].diedPlayers}
    /\ lastDeal' = IF Started' /\ ~Started THEN rooms'[ROOM].players
                   ELSE IF Started' THEN lastDeal
                   ELSE <<>>

TimerStep == TimerFire /\ UNCHANGED budget /\ History

Message ==
    \/ \E p \in Actives, n \in Names : CreateRoom(p, n)
    \/ \E p \in Actives, n \in Names : JoinRoom(p, n)
    \/ \E p \in Actives : Die(p)
    \/ \E p \in Actives, k \in Shuffles : Start(p, k)
    \/ \E p \in Actives : End(p)
    \/ \E p \in Actives : LeaveRoom(p)
    \/ \E p \in Actives : Close(p)

Next ==
    \/ /\ budget > 0
       /\ budget' = budget - 1
       /\ Message
       /\ History
    \/ TimerStep

Spec == Init /\ [][Next]_vars
\* Timers fire once armed; clients are free to stay silent.
FairSpec == Spec /\ WF_vars(TimerStep)

\* ------------------------------------------------------------------ claims

\* C1: hostId is null or a key of players, never an identity that is in
\* disconnectedPlayers or that has left the room.
C1_HostIsPresent ==
    Exists => (rooms[ROOM].hostId = NULL \/ rooms[ROOM].hostId \in Present)

\* C2: players.size never exceeds MAX_PLAYERS.
C2_AtMostMaxPlayers ==
    Exists => Len(rooms[ROOM].players) <= MAX_PLAYERS

\* C3: the gameState copy a recipient gets carries the card values of no
\* other player, and a 'cards' message carries exactly its recipient's hand.
C3_OnlyOwnHand ==
    \A i \in DOMAIN sent :
        /\ sent[i].type = "gameState" =>
             \A r \in Recipients(sent[i]) :
                 \A j \in DOMAIN GameStateFor(sent[i], r).players :
                     LET e == GameStateFor(sent[i], r).players[j]
                     IN  e.id # r => ~HasCards(e.cards)
        /\ sent[i].type = "cards" =>
             /\ sent[i].to \in Present
             /\ sent[i].cards = MapGet(rooms[ROOM].players, sent[i].to).cards

\* C4: no identity is a key of players and of disconnectedPlayers at once.
C4_PresentOrDisconnected ==
    Present \cap Disconnected = {}

\* C4 witness: one identity is back in players after a disconnect and a
\* reconnect while another identity sits in disconnectedPlayers.
C4_Witness ==
    /\ \E i \in DOMAIN timers : timers[i].rejoined /\ timers[i].id \in Present
    /\ Disconnected # {}

\* C5: the timer of a disconnect that was followed by a reconnect removes
\* nobody from disconnectedPlayers and sends nothing when it fires.
C5_ReconnectCancelsTimer ==
    [][(timers # <<>> /\ Head(timers).rejoined /\ TimerFire)
         => (Disconnected' = Disconnected /\ sent' = <<>>)]_vars

\* The current host p leaves or loses its connection and others remain.
HostDeparts(p) ==
    /\ Exists
    /\ p = rooms[ROOM].hostId
    /\ p \in Present
    /\ LeaveRoom(p) \/ Close(p)
    /\ Present' # {}

\* C6 as stated: the new host is the earliest joiner among the remaining
\* players, also when some of them reconnected since they first joined.
C6_EarliestJoinerBecomesHost ==
    [][\A p \in Actives :
         HostDeparts(p) =>
             rooms'[ROOM].hostId = EarliestJoiner(rooms'[ROOM], joined')]_vars

\* C6 as amended: the new host is the first of the remaining players in the
\* iteration order of players, where a reconnect puts a player last.
C6_FirstRemainingBecomesHost ==
    [][\A p \in Actives :
         HostDeparts(p) =>
             /\ rooms'[ROOM].players = MapDelete(rooms[ROOM].players, p)
             /\ rooms'[ROOM].hostId = rooms'[ROOM].players[1].id]_vars

\* C6 witness: the host has just lost its connection (the snapshot sent by
\* handleDisconnect still names it), the first remaining player is the new
\* host, and an earlier joiner, back from a reconnect, is present too.
C6_Witness ==
    /\ Exists
    /\ Len(sent) = 1
    /\ sent[1].type = "gameState"
    /\ Recipients(sent[1]) = Present
    /\ sent[1].hostId \in Disconnected
    /\ rooms[ROOM].hostId # sent[1].hostId
    /\ rooms[ROOM].hostId = rooms[ROOM].players[1].id
    /\ rooms[ROOM].hostId # EarliestJoiner(rooms[ROOM], joined)

\* C7: the registry holds no session whose players and disconnectedPlayers
\* are both empty.
C7_NoEmptySession ==
    Exists => ~(Len(rooms[ROOM].players) = 0 /\ Len(rooms[ROOM].disconnectedPlayers) = 0)

\* C8: every entry of disconnectedPlayers eventually leaves it, by a
\* reconnect or by the expiry of the grace period.
C8_DisconnectedEventuallyLeaves ==
    \A p \in Actives : (p \in Disconnected) ~> (p \notin Disconnected)

\* The error of startGame(p) in the order the claim gives.
StartError(g, p) ==
    IF p # g.hostId THEN "NotHostStart"
    ELSE IF Len(g.players) < 2 THEN "InsufficientPlayers"
    ELSE IF g.gameStarted THEN "AlreadyStarted"
    ELSE ""

\* C9: start by p succeeds iff p is the host, at least 2 players are present
\* and no game is running; otherwise NotHost, InsufficientPlayers or
\* AlreadyStarted, in that order.  Success sets gameStarted and deals.
C9_StartGame ==
    [][\A p \in Actives, k \in Shuffles :
         (Exists /\ Start(p, k)) =>
             LET g == rooms[ROOM]
                 h == rooms'[ROOM]
             IN  IF StartError(g, p) = ""
                 THEN /\ h.gameStarted
                      /\ \A i \in DOMAIN sent' : sent'[i].type # "error"
                      /\ \A i \in DOMAIN h.players :
                           /\ \E j \in DOMAIN sent' :
                                sent'[j] = CardsMsg(h.players[i].id, h.players[i].cards)
                           /\ i * CARDS_PER_PLAYER <= Len(cards)
                                => Len(h.players[i].cards) = CARDS_PER_PLAYER
                 ELSE /\ sent' = <<ErrorMsg(p, StartError(g, p))>>
                      /\ h = g]_vars

\* C9 witness: a start has just succeeded with exactly MAX_PLAYERS present.
C9_Witness ==
    /\ Exists
    /\ rooms[ROOM].gameStarted
    /\ Len(rooms[ROOM].players) = MAX_PLAYERS
    /\ Len(sent) = MAX_PLAYERS + 1
    /\ sent[1].type = "cards"

\* C10: an operation that ends in an error changes nothing of the session
\* or the registry and sends one error message, to its sender, and nothing else.
C10_ErrorsChangeNothing ==
    [][\A p \in Actives :
         (/\ \/ Die(p)
             \/ End(p)
             \/ \E k \in Shuffles : Start(p, k)
             \/ \E n \in Names : JoinRoom(p, n)
          /\ \E i \in DOMAIN sent' : sent'[i].type = "error")
         => /\ rooms' = rooms
            /\ timers' = timers
            /\ Len(sent') = 1
            /\ sent'[1].to = p
            /\ sent'[1].message \in
                 {"NotHostStart", "InsufficientPlayers", "AlreadyStarted", "NotHostEnd",
                  "PlayerNotFound", "RoomNotFound", "NameTaken", "GameInProgress",
                  "RoomFull"}]_vars

\* C10 witness: a joinRoom has just been refused because the room is full.
C10_Witness ==
    /\ Exists
    /\ Len(rooms[ROOM].players) >= MAX_PLAYERS
    /\ Len(sent) = 1
    /\ sent[1].type = "error"
    /\ sent[1].message = "RoomFull"
\* the card values of a hand, none for null
CardSet(c) == IF c = NULLCARDS THEN {} ELSE {c[i] : i \in DOMAIN c}

\* C11: right after every successful start each present player holds exactly
\* CARDS_PER_PLAYER cards of the deck and the hands are pairwise disjoint.
C11_DealsDisjointPairs ==
    [][\A p \in Actives, k \in Shuffles :
         (Exists /\ StartError(rooms[ROOM], p) = "" /\ Start(p, k)) =>
             LET h == rooms'[ROOM].players
             IN  /\ \A i \in DOMAIN h :
                      /\ h[i].cards # NULLCARDS
                      /\ Len(h[i].cards) = CARDS_PER_PLAYER
                      /\ Cardinality(CardSet(h[i].cards)) = CARDS_PER_PLAYER
                      /\ CardSet(h[i].cards) \subseteq CardSet(cards)
                 /\ \A i, j \in DOMAIN h :
                      i # j => CardSet(h[i].cards) \cap CardSet(h[j].cards) = {}]_vars
\* C12: a player that had forfeited when it was moved to disconnectedPlayers
\* comes back from a reconnect with an empty hand and gets no 'cards'
\* message, whatever start and end did in between.
C12_ForfeitedComesBackEmpty ==
    [][\A p \in Actives :
         (p \in forfeited /\ p \notin Present /\ p \in Present') =>
             /\ ~HasCards(MapGet(rooms'[ROOM].players, p).cards)
             /\ \A i \in DOMAIN sent' :
                  ~(sent'[i].type = "cards" /\ sent'[i].to = p)]_vars

\* C13 as stated: while gameStarted is false every present player's hand is
\* empty, also after a successful end.
C13_LobbyHandsEmpty ==
    (Exists /\ ~rooms[ROOM].gameStarted) =>
        \A i \in DOMAIN rooms[ROOM].players : ~HasCards(rooms[ROOM].players[i].cards)

\* C13 amended: no step that ends with gameStarted false gives a present
\* player a non-empty hand other than the one it held in players, or had
\* stored in disconnectedPlayers, before the step; a present player that is
\* in diedPlayers while gameStarted is false has an empty hand.
C13_LobbyKeepsOldHands ==
    [][(Exists' /\ ~rooms'[ROOM].gameStarted) =>
         \A i \in DOMAIN rooms'[ROOM].players :
            LET q == rooms'[ROOM].players[i]
            IN  HasCards(q.cards) =>
                  /\ q.id \notin rooms'[ROOM].diedPlayers
                  /\ Exists
                  /\ \/ /\ q.id \in Present
                        /\ MapGet(rooms[ROOM].players, q.id).cards = q.cards
                     \/ /\ q.id \in Disconnected
                        /\ MapGet(rooms[ROOM].disconnectedPlayers, q.id).cards = q.cards]_vars

\* a successful end has just left a present player its hand of the round
C13_Witness ==
    /\ Exists
    /\ ~rooms[ROOM].gameStarted
    /\ Len(sent) = 1
    /\ sent[1].type = "gameState"
    /\ ~sent[1].gameStarted
    /\ \E i \in DOMAIN rooms[ROOM].players : HasCards(rooms[ROOM].players[i].cards)

\* C14 as stated, the part about Lobby: diedPlayers is empty whenever
\* gameStarted is false.
C14_DiedEmptyInLobby ==
    (Exists /\ ~rooms[ROOM].gameStarted) => rooms[ROOM].diedPlayers = {}

\* C14 amended: a new room has diedPlayers empty; diedPlayers gains an
\* identity only by a die of an identity that is a key of players, in either
\* phase; it loses identities only by being emptied by a successful end, and
\* every successful end empties it, in whichever phase it is called.
C14_DiedSetSteps ==
    [][/\ (~Exists /\ Exists') => rooms'[ROOM].diedPlayers = {}
       /\ (Exists /\ Exists') =>
            LET d == rooms[ROOM].diedPlayers
                e == rooms'[ROOM].diedPlayers
            IN  /\ \A p \in e \ d :
                     /\ e = d \cup {p}
                     /\ p \in Present /\ p \in Present'
                     /\ p \in Actives /\ Die(p)
                /\ (d \ e # {}) =>
                     /\ e = {}
                     /\ ~rooms'[ROOM].gameStarted
                     /\ \E p \in Actives : p = rooms[ROOM].hostId /\ End(p)
                /\ \A p \in Actives :
                     (p = rooms[ROOM].hostId /\ End(p)) => e = {}]_vars

\* an identity has died in Lobby, after an earlier round was ended
C14_Witness ==
    /\ Exists
    /\ ~rooms[ROOM].gameStarted
    /\ rooms[ROOM].diedPlayers # {}
    /\ rooms[ROOM].firstGamePlayers # {}
    /\ Len(sent) = 1
    /\ sent[1].type = "gameState"
    /\ sent[1].diedPlayers = rooms[ROOM].diedPlayers

\* C15: while the room exists, every gameState snapshot the last operation
\* sent agrees with the session state the operation left on the player list,
\* on gameStarted and on hostId.
C15_SnapshotAgrees ==
    Exists =>
        \A i \in DOMAIN sent :
            sent[i].type = "gameState" =>
                /\ [j \in DOMAIN sent[i].players |-> sent[i].players[j].id]
                     = [j \in DOMAIN rooms[ROOM].players |-> rooms[ROOM].players[j].id]
                /\ sent[i].gameStarted = rooms[ROOM].gameStarted
                /\ sent[i].hostId = rooms[ROOM].hostId

\* the error messages of the last operation
Errors(out) == {out[i].message : i \in {j \in DOMAIN out : out[j].type = "error"}}

\* C16: a joinRoom of an identity that is not in disconnectedPlayers fails
\* with NameTaken, else GameInProgress, else RoomFull, in that precedence, and
\* then changes nothing; otherwise it adds a PlayerState with an empty hand
\* and leaves hostId unchanged.  A joinRoom of an identity in
\* disconnectedPlayers is a reconnect, whatever the name, phase and size.
\* (Every joinRoom answers its sender first: the test on sent' only skips
\* the steps that cannot be a joinRoom.)
C16_JoinRoom ==
    [][\A p \in Actives, n \in Names :
         (/\ Exists
          /\ Len(sent') > 0
          /\ sent'[1].type \in {"error", "joinResponse", "cards"}
          /\ JoinRoom(p, n)) =>
            LET g == rooms[ROOM]
                unchanged == rooms' = rooms
            IN  IF p \in Disconnected
                THEN /\ Errors(sent') = {}
                     /\ p \in Present' /\ p \notin Disconnected'
                     /\ MapGet(rooms'[ROOM].players, p).name = n
                     /\ \E i \in DOMAIN sent' :
                          sent'[i].type = "joinResponse" /\ sent'[i].rejoined
                ELSE IF \E i \in DOMAIN g.players : g.players[i].name = n
                THEN sent' = <<ErrorMsg(p, "NameTaken")>> /\ unchanged
                ELSE IF g.gameStarted
                THEN sent' = <<ErrorMsg(p, "GameInProgress")>> /\ unchanged
                ELSE IF Len(g.players) >= MAX_PLAYERS
                THEN sent' = <<ErrorMsg(p, "RoomFull")>> /\ unchanged
                ELSE /\ Errors(sent') = {}
                     /\ p \in Present'
                     /\ MapGet(rooms'[ROOM].players, p) = [id |-> p, name |-> n, cards |-> <<>>]
                     /\ rooms'[ROOM].hostId = g.hostId
                     /\ \E i \in DOMAIN sent' :
                          sent'[i].type = "joinResponse" /\ ~sent'[i].rejoined
                     /\ \A q \in Present \ {p} :
                          /\ q \in Present'
                          /\ MapGet(rooms'[ROOM].players, q) = MapGet(g.players, q)]_vars

\* a reconnect was accepted during a round, into a room that is full, under
\* a name a present player has
C16_Witness ==
    /\ Started
    /\ Len(rooms[ROOM].players) > MAX_PLAYERS
    /\ \E i \in DOMAIN sent :
         /\ sent[i].type = "joinResponse"
         /\ sent[i].rejoined
         /\ \E j \in DOMAIN rooms[ROOM].players :
              /\ rooms[ROOM].players[j].id # sent[i].to
              /\ rooms[ROOM].players[j].name = MapGet(rooms[ROOM].players, sent[i].to).name

C18_DiedHoldNoCards ==
    /\ Exists =>
         \A i \in DOMAIN rooms[ROOM].players :
            rooms[ROOM].players[i].id \in rooms[ROOM].diedPlayers
                => ~HasCards(rooms[ROOM].players[i].cards)
    /\ \A i \in DOMAIN sent :
         sent[i].type = "gameState" =>
            \A j \in DOMAIN sent[i].players :
                ~(sent[i].players[j].isDied /\ sent[i].players[j].hasCards)

\* C19: while gameStarted is true the non-empty hands of the present players
\* are pairwise disjoint and each is the hand the most recent start dealt to
\* that player.
C19_HandsOfThisRound ==
    Started =>
        LET h == rooms[ROOM].players
        IN  /\ \A i, j \in DOMAIN h :
                 (i # j /\ HasCards(h[i].cards) /\ HasCards(h[j].cards))
                     => CardSet(h[i].cards) \cap CardSet(h[j].cards) = {}
            /\ \A i \in DOMAIN h :
                 HasCards(h[i].cards) =>
                     /\ h[i].id \in Keys(lastDeal)
                     /\ MapGet(lastDeal, h[i].id).cards = h[i].cards

\* C20: no two present players of a room have the same display name.
C20_UniqueNames ==
    Exists =>
        \A i, j \in DOMAIN rooms[ROOM].players :
            i # j => rooms[ROOM].players[i].name # rooms[ROOM].players[j].name

====
